---- MODULE Spec2Model ----
(***************************************************************************)
(* Request broker (AdvancedServer) and worker pool (WorkerPool) of         *)
(* python/src/server.py, with the validation collaborator of               *)
(* python/src/validation.py.                                               *)
(*                                                                         *)
(* Threads: the dispatch loop (broker), worker_processes worker threads,   *)
(* the metrics thread, and the signal handler that requests shutdown.      *)
(* Shared structures: request_queue, response_queue (queue.Queue) and the  *)
(* metrics dictionary.                                                     *)
(*                                                                         *)
(* History variables (not program state): received, the client messages    *)
(* taken from the frontend socket in order, and sent, the multipart        *)
(* messages handed to frontend.send_multipart in order.  Work items and    *)
(* sent messages carry rid, the index in received of the message they      *)
(* stem from; the program never reads it.                                  *)
(***************************************************************************)
EXTENDS Integers, Sequences, FiniteSets, TLC

\* ---------------------------------------------------------------- bounds
\* client messages the frontend receives in one run
MaxRequests == 2
\* ServerConfig.max_queue_size (1000 by default), scaled down
max_queue_size == 1
\* ServerConfig.worker_processes: the number of threads WorkerPool.start launches
worker_processes == 2
\* ServerConfig.worker_threads
worker_threads == 4

\* the identities of the worker threads a pool may launch
Workers == 1..worker_processes

\* ------------------------------------------------------------ byte strings
\* A bytes object: utf8 says whether it is the UTF-8 encoding of `text`;
\* when it is not, the bytes are no valid UTF-8 and `text` only names them.
Bytes(s) == [utf8 |-> TRUE, text |-> s]
RawBytes(s) == [utf8 |-> FALSE, text |-> s]

Ok(v) == [ok |-> TRUE, val |-> v]
Raise(e) == [ok |-> FALSE, val |-> e]

\* bytes.decode("utf-8"): the text, or UnicodeDecodeError
Utf8Decode(b) == IF b.utf8 THEN Ok(b.text) ELSE Raise("UnicodeDecodeError")

\* str.encode(): always succeeds on a str that came out of decode()
Utf8Encode(s) == Bytes(s)

\* ------------------------------------------------------------ JSON values
\* A decoded JSON value is a record with one field, named after its Python
\* type: str, num (an int), arr (a list) or obj (a dict).
JStr(s) == [str |-> s]
JNum(n) == [num |-> n]
JArr(a) == [arr |-> a]
JObj(o) == [obj |-> o]

IsStr(x) == "str" \in DOMAIN x
IsNum(x) == "num" \in DOMAIN x
IsArr(x) == "arr" \in DOMAIN x
IsObj(x) == "obj" \in DOMAIN x

Matrix1234 == JArr(<<JArr(<<JNum(1), JNum(2)>>), JArr(<<JNum(3), JNum(4)>>)>>)
MatrixRagged == JArr(<<JArr(<<JNum(1), JNum(2)>>), JArr(<<JNum(3)>>)>>)
AnotherModel == JObj([name |-> JStr("AnotherModel"), version |-> JStr("1.2"),
                      author |-> JStr("Jane Doe")])
TestModel == JObj([name |-> JStr("TestModel"), version |-> JStr("0.1")])

\* payload texts the clients send
TXT_HEARTBEAT == "\"HEARTBEAT\""
TXT_V1 == "{\"schema_version\":1,\"matrix\":[[1,2],[3,4]],\"model\":{\"name\":\"TestModel\",\"version\":\"0.1\"}}"
TXT_V3 == "{\"schema_version\":3,\"matrix\":[[1,2],[3,4]],\"model\":{\"name\":\"TestModel\",\"version\":\"0.1\"}}"
TXT_NUM == "5"
TXT_V2 == "{\"schema_version\":2,\"matrix\":[[1,2],[3,4]],\"model\":{\"name\":\"AnotherModel\",\"version\":\"1.2\",\"author\":\"Jane Doe\"}}"
TXT_NOMODEL == "{\"schema_version\":1,\"matrix\":[[1,2],[3,4]]}"
TXT_WRAPPED == "{\"payload\":{\"schema_version\":1,\"matrix\":[[1,2],[3,4]],\"model\":{\"name\":\"TestModel\",\"version\":\"0.1\"}}}"
TXT_RAGGED == "{\"schema_version\":2,\"matrix\":[[1,2],[3]],\"model\":{\"name\":\"TestModel\",\"version\":\"0.1\"}}"
TXT_MALFORMED == "{not json"

\* json.loads on the texts above; any other text is not a JSON document
JsonLoads(s) ==
    CASE s = TXT_HEARTBEAT -> Ok(JStr("HEARTBEAT"))
      [] s = TXT_V1 -> Ok(JObj([schema_version |-> JNum(1), matrix |-> Matrix1234,
                                model |-> TestModel]))
      [] s = TXT_V3 -> Ok(JObj([schema_version |-> JNum(3), matrix |-> Matrix1234,
                                model |-> TestModel]))
      [] s = TXT_NUM -> Ok(JNum(5))
      [] s = TXT_V2 -> Ok(JObj([schema_version |-> JNum(2), matrix |-> Matrix1234,
                                model |-> AnotherModel]))
      [] s = TXT_NOMODEL -> Ok(JObj([schema_version |-> JNum(1), matrix |-> Matrix1234]))
      [] s = TXT_WRAPPED ->
            Ok(JObj([payload |-> JObj([schema_version |-> JNum(1), matrix |-> Matrix1234,
                                       model |-> TestModel])]))
      [] s = TXT_RAGGED -> Ok(JObj([schema_version |-> JNum(2), matrix |-> MatrixRagged,
                                    model |-> TestModel]))
      [] OTHER -> Raise("JSONDecodeError")

\* mutant of IsHeartbeat: the sentinel is compared in the wrong case
IsHeartbeat_lowercase(data) == IsStr(data) /\ data.str = "heartbeat"

\* Python's  data == "HEARTBEAT"
IsHeartbeat(data) == IsStr(data) /\ data.str = "HEARTBEAT"

\* ------------------------------------------------------ validation.py
HasKey(o, k) == k \in DOMAIN o.obj

\* str(value) as an f-string prints it
PyStr(x) == IF IsNum(x) THEN ToString(x.num) ELSE IF IsStr(x) THEN x.str ELSE "<value>"

IsIntMatrix(m) ==
    /\ IsArr(m)
    /\ \A i \in 1..Len(m.arr) :
          /\ IsArr(m.arr[i])
          /\ \A j \in 1..Len(m.arr[i].arr) : IsNum(m.arr[i].arr[j])

\* jsonschema.validate against matrix_model_schema_v1 / _v2 (the two differ
\* only in the optional model.author, a string when present)
SchemaValid(data, version) ==
    /\ HasKey(data, "schema_version") /\ HasKey(data, "matrix") /\ HasKey(data, "model")
    /\ IsNum(data.obj.schema_version)
    /\ IsIntMatrix(data.obj.matrix)
    /\ IsObj(data.obj.model)
    /\ HasKey(data.obj.model, "name") /\ HasKey(data.obj.model, "version")
    /\ IsStr(data.obj.model.obj.name)
    /\ IsStr(data.obj.model.obj.version)
    /\ (version = 2 /\ HasKey(data.obj.model, "author"))
          => IsStr(data.obj.model.obj.author)

\* mutant of validate_matrix_model: a version that is not 2 is validated
\* against the v1 schema
validate_matrix_model_lenient(payload) ==
    IF ~IsObj(payload) THEN Raise("AttributeError: object has no attribute 'get'")
    ELSE LET version == IF HasKey(payload, "schema_version")
                        THEN payload.obj.schema_version ELSE JNum(1)
         IN IF SchemaValid(payload, IF IsNum(version) /\ version.num = 2 THEN 2 ELSE 1)
            THEN Ok("valid")
            ELSE Raise("ValidationError")

\* validate_matrix_model: Ok, or the exception it raises
validate_matrix_model(payload) ==
    IF ~IsObj(payload) THEN Raise("AttributeError: object has no attribute 'get'")
    ELSE LET version == IF HasKey(payload, "schema_version")
                        THEN payload.obj.schema_version ELSE JNum(1)
         IN IF IsNum(version) /\ version.num \in {1, 2}
            THEN IF SchemaValid(payload, version.num) THEN Ok("valid")
                 ELSE Raise("ValidationError")
            ELSE Raise("Unsupported schema version: " \o PyStr(version))

\* --------------------------------------------------------------- workers
\* time.time(): a reading of the clock; only its presence is modelled
TimeValue == "<time>"

RECURSIVE SeqSum(_)
SeqSum(s) == IF s = <<>> THEN 0 ELSE Head(s).num + SeqSum(Tail(s))

\* mutant of MatrixSum: only the first row is summed
MatrixSum_first_row(rows) == IF rows = <<>> THEN 0 ELSE SeqSum(Head(rows).arr)

RECURSIVE MatrixSum(_)
MatrixSum(rows) ==
    IF rows = <<>> THEN 0 ELSE SeqSum(Head(rows).arr) + MatrixSum(Tail(rows))

\* np.array(matrix, dtype=np.float64) needs rows of one length
Rectangular(m) == \A i, j \in 1..Len(m.arr) : Len(m.arr[i].arr) = Len(m.arr[j].arr)

MatrixShape(m) == IF Len(m.arr) = 0 THEN <<0>> ELSE <<Len(m.arr), Len(m.arr[1].arr)>>

\* "payload" in payload, then payload["payload"] or payload itself
UnwrapPayload(payload) ==
    CASE IsObj(payload) ->
            IF HasKey(payload, "payload") THEN Ok(payload.obj.payload) ELSE Ok(payload)
      [] IsStr(payload) ->
            \* substring test; indexing a str with a str raises
            IF payload.str = "payload"
            THEN Raise("TypeError: string indices must be integers")
            ELSE Ok(payload)
      [] IsArr(payload) ->
            IF \E i \in 1..Len(payload.arr) :
                  IsStr(payload.arr[i]) /\ payload.arr[i].str = "payload"
            THEN Raise("TypeError: list indices must be integers")
            ELSE Ok(payload)
      [] OTHER -> Raise("TypeError: argument is not iterable")

\* WorkerPool._process_request: the response dict, or the exception raised
process_request(payload) ==
    LET u == UnwrapPayload(payload) IN
    IF ~u.ok THEN u
    ELSE LET data == u.val
             valid == validate_matrix_model(data)
         IN IF ~valid.ok THEN valid
            ELSE IF ~Rectangular(data.obj.matrix)
                 THEN Raise("ValueError: inhomogeneous shape")
                 ELSE Ok([status |-> "success",
                          matrix_sum |-> MatrixSum(data.obj.matrix.arr),
                          model_checked |-> data.obj.model.obj.name.str,
                          schema_version_used |-> data.obj.schema_version.num,
                          timestamp |-> TimeValue,
                          matrix_shape |-> MatrixShape(data.obj.matrix),
                          data_type |-> "float64"])

\* mutant of WorkerResponse: the except answers with a fixed message and
\* leaves the exception's text to the log
WorkerResponse_fixed_message(correlation_id, payload) ==
    LET r == process_request(payload) IN
    IF r.ok
    THEN [status |-> r.val.status,
          matrix_sum |-> r.val.matrix_sum,
          model_checked |-> r.val.model_checked,
          schema_version_used |-> r.val.schema_version_used,
          timestamp |-> r.val.timestamp,
          matrix_shape |-> r.val.matrix_shape,
          data_type |-> r.val.data_type,
          correlation_id |-> correlation_id,
          processing_time |-> TimeValue]
    ELSE [status |-> "error",
          message |-> "Internal error",
          correlation_id |-> correlation_id,
          processing_time |-> TimeValue]

\* The response a worker builds for a dequeued item (lines 93-105)
WorkerResponse(correlation_id, payload) ==
    LET r == process_request(payload) IN
    IF r.ok
    THEN [status |-> r.val.status,
          matrix_sum |-> r.val.matrix_sum,
          model_checked |-> r.val.model_checked,
          schema_version_used |-> r.val.schema_version_used,
          timestamp |-> r.val.timestamp,
          matrix_shape |-> r.val.matrix_shape,
          data_type |-> r.val.data_type,
          correlation_id |-> correlation_id,
          processing_time |-> TimeValue]
    ELSE [status |-> "error",
          message |-> r.val,
          correlation_id |-> correlation_id,
          processing_time |-> TimeValue]

\* ------------------------------------------------------------- codec.py
\* Python values a caller hands to SerializationCodec.serialize, beyond the
\* str, int, list and dict above.  One field each, named after the type.
JNull == [null |-> TRUE]
JBool(b) == [bool |-> b]
\* a float, named by its repr: "1.5", "nan", "inf", "-inf"
JFloat(x) == [float |-> x]
\* an int outside the 64-bit range, named by its decimal text
PyBigInt(s) == [bigint |-> s]
PyTuple(a) == [tuple |-> a]
PyBytes(s) == [bytes |-> s]
\* a list of `times` copies of `item`
PyListOf(item, times) == [item |-> item, times |-> times]
\* a list nested `depth` levels deep around the empty list
PyDeepList(depth) == [depth |-> depth]

IsNull(x) == "null" \in DOMAIN x
IsBool(x) == "bool" \in DOMAIN x
IsFloat(x) == "float" \in DOMAIN x
IsBigInt(x) == "bigint" \in DOMAIN x
IsTuple(x) == "tuple" \in DOMAIN x
IsBytes(x) == "bytes" \in DOMAIN x
IsListOf(x) == "times" \in DOMAIN x
IsDeepList(x) == "depth" \in DOMAIN x

\* isinstance(value, (list, tuple))
IsListOrTuple(x) == IsArr(x) \/ IsTuple(x) \/ IsListOf(x) \/ IsDeepList(x)

\* len() of a list or tuple
PyLen(x) ==
    CASE IsArr(x) -> Len(x.arr)
      [] IsTuple(x) -> Len(x.tuple)
      [] IsListOf(x) -> x.times
      [] IsDeepList(x) -> 1

\* CodecConfig.json_threshold and msgpack_threshold
json_threshold == 1000
msgpack_threshold == 100000

\* SerializationCodec._estimate_payload_size: the length of a list or tuple;
\* for a dict the lengths of the lists among its values plus the estimate of
\* the dicts among its values; 0 for anything else
RECURSIVE estimate_payload_size(_)
RECURSIVE EstimateValues(_, _)
EstimateValues(o, keys) ==
    IF keys = {} THEN 0
    ELSE LET k == CHOOSE x \in keys : TRUE
             value == o[k]
         IN (IF IsListOrTuple(value) THEN PyLen(value)
             ELSE IF IsObj(value) THEN estimate_payload_size(value)
             ELSE 0)
            + EstimateValues(o, keys \ {k})

estimate_payload_size(data) ==
    IF IsListOrTuple(data) THEN PyLen(data)
    ELSE IF IsObj(data) THEN EstimateValues(data.obj, DOMAIN data.obj)
    ELSE 0

\* _select_format with the thresholds on the wrong side
select_format_inclusive(data) ==
    LET payload_size == estimate_payload_size(data) IN
    IF payload_size <= json_threshold THEN "json"
    ELSE IF payload_size <= msgpack_threshold THEN "msgpack"
    ELSE "protobuf"

\* SerializationCodec._select_format
select_format(data) ==
    LET payload_size == estimate_payload_size(data) IN
    IF payload_size < json_threshold THEN "json"
    ELSE IF payload_size < msgpack_threshold THEN "msgpack"
    ELSE "protobuf"

\* --- JSON text, as the tree of its tokens
\* json.dumps can write the value: bytes are not serializable, and the
\* default hook, which returns its argument, ends in ValueError
RECURSIVE JsonSerializable(_)
JsonSerializable(v) ==
    CASE IsArr(v) -> \A i \in 1..Len(v.arr) : JsonSerializable(v.arr[i])
      [] IsTuple(v) -> \A i \in 1..Len(v.tuple) : JsonSerializable(v.tuple[i])
      [] IsObj(v) -> \A k \in DOMAIN v.obj : JsonSerializable(v.obj[k])
      [] IsListOf(v) -> JsonSerializable(v.item)
      [] IsBytes(v) -> FALSE
      [] OTHER -> TRUE

\* the text json.dumps(v, separators=(",", ":")) writes: floats are written
\* natively, the non-finite ones as the bare tokens NaN, Infinity and
\* -Infinity; a tuple is written as an array
RECURSIVE JsonText(_)
JsonText(v) ==
    CASE IsNull(v) -> [tok |-> "null"]
      [] IsBool(v) -> [tok |-> IF v.bool THEN "true" ELSE "false"]
      [] IsNum(v) -> [number |-> ToString(v.num)]
      [] IsBigInt(v) -> [number |-> v.bigint]
      [] IsFloat(v) ->
            IF v.float = "nan" THEN [tok |-> "NaN"]
            ELSE IF v.float = "inf" THEN [tok |-> "Infinity"]
            ELSE IF v.float = "-inf" THEN [tok |-> "-Infinity"]
            ELSE [real |-> v.float]
      [] IsStr(v) -> [string |-> v.str]
      [] IsArr(v) -> [array |-> [i \in 1..Len(v.arr) |-> JsonText(v.arr[i])]]
      [] IsTuple(v) -> [array |-> [i \in 1..Len(v.tuple) |-> JsonText(v.tuple[i])]]
      [] IsListOf(v) -> [array_of |-> JsonText(v.item), count |-> v.times]
      [] IsDeepList(v) -> [nested |-> v.depth]
      [] IsObj(v) -> [object |-> [k \in DOMAIN v.obj |-> JsonText(v.obj[k])]]

\* SerializationCodec._serialize_json: the body, or the exception
serialize_json(data) ==
    IF JsonSerializable(data) THEN Ok([json_text |-> JsonText(data)])
    ELSE Raise("ValueError: Circular reference detected")

\* json_hook of _deserialize_json on one value of a decoded object: the
\* strings "NaN", "Infinity", "-Infinity" become floats
json_hook_value(value) ==
    IF IsStr(value) /\ value.str = "NaN" THEN JFloat("nan")
    ELSE IF IsStr(value) /\ value.str = "Infinity" THEN JFloat("inf")
    ELSE IF IsStr(value) /\ value.str = "-Infinity" THEN JFloat("-inf")
    ELSE value

\* the ints of the sample values, all within 64 bits
Int64Sample == -1..10

\* json.loads(text, object_hook=json_hook): the bare tokens NaN, Infinity
\* and -Infinity are read as floats; the hook is applied to every object
RECURSIVE JsonParse(_)
JsonParse(t) ==
    CASE "tok" \in DOMAIN t ->
            (CASE t.tok = "null" -> JNull
               [] t.tok = "true" -> JBool(TRUE)
               [] t.tok = "false" -> JBool(FALSE)
               [] t.tok = "NaN" -> JFloat("nan")
               [] t.tok = "Infinity" -> JFloat("inf")
               [] t.tok = "-Infinity" -> JFloat("-inf"))
      [] "number" \in DOMAIN t ->
            IF \E n \in Int64Sample : ToString(n) = t.number
            THEN JNum(CHOOSE n \in Int64Sample : ToString(n) = t.number)
            ELSE PyBigInt(t.number)
      [] "real" \in DOMAIN t -> JFloat(t.real)
      [] "string" \in DOMAIN t -> JStr(t.string)
      [] "array" \in DOMAIN t -> JArr([i \in 1..Len(t.array) |-> JsonParse(t.array[i])])
      [] "array_of" \in DOMAIN t -> PyListOf(JsonParse(t.array_of), t.count)
      [] "nested" \in DOMAIN t -> PyDeepList(t.nested)
      [] "object" \in DOMAIN t ->
            JObj([k \in DOMAIN t.object |-> json_hook_value(JsonParse(t.object[k]))])

\* SerializationCodec._deserialize_json on a body that is JSON text
deserialize_json_text(text) == Ok(JsonParse(text))

\* --- MessagePack
\* msgpack's nesting limit (DEFAULT_RECURSE_LIMIT)
msgpack_recurse_limit == 511

\* what msgpack.packb(data, use_bin_type=True, strict_types=True) does with
\* the value: "ok", or the exception it raises.  strict_types refuses a
\* tuple, an int outside 64 bits overflows, nesting beyond the limit is a
\* ValueError
RECURSIVE PackOutcome(_)
Worst(outcomes) ==
    IF "ValueError" \in outcomes THEN "ValueError"
    ELSE IF "TypeError" \in outcomes THEN "TypeError"
    ELSE IF "OverflowError" \in outcomes THEN "OverflowError"
    ELSE "ok"

PackOutcome(v) ==
    CASE IsTuple(v) -> "TypeError"
      [] IsBigInt(v) -> "OverflowError"
      [] IsDeepList(v) -> IF v.depth > msgpack_recurse_limit THEN "ValueError" ELSE "ok"
      [] IsArr(v) -> Worst({PackOutcome(v.arr[i]) : i \in 1..Len(v.arr)})
      [] IsListOf(v) -> PackOutcome(v.item)
      [] IsObj(v) -> Worst({PackOutcome(v.obj[k]) : k \in DOMAIN v.obj})
      [] OTHER -> "ok"

\* SerializationCodec._serialize_msgpack: the packed value, the JSON text
\* when packb raises TypeError or OverflowError, or the exception
serialize_msgpack(data) ==
    LET packed == PackOutcome(data) IN
    IF packed = "ok" THEN Ok([msgpack |-> data])
    ELSE IF packed \in {"TypeError", "OverflowError"} THEN serialize_json(data)
    ELSE Raise("ValueError: recursion limit exceeded")

\* _serialize_protobuf with a wire format of its own
serialize_protobuf_distinct(data) ==
    IF PackOutcome(data) = "ok" THEN Ok([protobuf |-> data])
    ELSE serialize_msgpack(data)

\* SerializationCodec._serialize_protobuf
serialize_protobuf(data) == serialize_msgpack(data)

\* the body of a blob that holds the tag byte and nothing more
EmptyBody == [empty |-> TRUE]

\* the first byte of a packed value read as text: the positive fixints 48..57
\* are the digits, the other positive fixints are not JSON, and every other
\* first byte of the packed values here is not UTF-8
PackedAsJson(v) ==
    IF IsNum(v) /\ v.num \in 48..57 THEN Ok(JNum(v.num - 48))
    ELSE IF IsNum(v) /\ v.num \in 0..127 THEN Raise("JSONDecodeError")
    ELSE Raise("UnicodeDecodeError")

\* SerializationCodec._deserialize_json
deserialize_json(payload) ==
    IF "json_text" \in DOMAIN payload THEN deserialize_json_text(payload.json_text)
    ELSE IF "msgpack" \in DOMAIN payload THEN PackedAsJson(payload.msgpack)
    ELSE Raise("JSONDecodeError")

\* SerializationCodec._deserialize_msgpack: a JSON text begins with an ASCII
\* byte, which unpackb reads as a positive fixint, and the rest is extra data
deserialize_msgpack(payload) ==
    IF "msgpack" \in DOMAIN payload THEN Ok(payload.msgpack)
    ELSE IF "json_text" \in DOMAIN payload THEN Raise("ExtraData")
    ELSE Raise("ValueError: Unpack failed: incomplete input")

\* SerializationCodec._deserialize_protobuf
deserialize_protobuf(payload) == deserialize_msgpack(payload)

\* SerializationCodec._format_to_id and _id_to_format, with their defaults
format_to_id(format_name) ==
    CASE format_name = "json" -> 1
      [] format_name = "msgpack" -> 2
      [] format_name = "protobuf" -> 3
      [] OTHER -> 1

id_to_format(format_id) ==
    CASE format_id = 1 -> "json"
      [] format_id = 2 -> "msgpack"
      [] format_id = 3 -> "protobuf"
      [] OTHER -> "json"

\* bytes: the empty blob, or a tag byte followed by a body
EmptyBlob == [empty_bytes |-> TRUE]
Blob(tag, body) == [tag |-> tag, body |-> body]

\* format_override=None
PyNone == "<None>"
Falsy(x) == x \in {PyNone, ""}

FormatNames == {"json", "msgpack", "protobuf"}
ZeroStats == [f \in FormatNames |-> 0]

\* the format-specific part of serialize, lines 69-76
serialize_selected(data, selected_format) ==
    CASE selected_format = "json" -> serialize_json(data)
      [] selected_format = "msgpack" -> serialize_msgpack(data)
      [] selected_format = "protobuf" -> serialize_protobuf(data)
      [] OTHER -> Raise("ValueError: Unsupported format")

\* mutant of serialize: no fallback, the exception of the selected format is
\* raised again
serialize_without_fallback(data, format_override, stats) ==
    LET selected_format == IF Falsy(format_override) THEN select_format(data)
                           ELSE format_override
        result == serialize_selected(data, selected_format)
    IN IF result.ok
       THEN [out |-> Ok(Blob(format_to_id(selected_format), result.val)),
             stats |-> [stats EXCEPT ![selected_format] = @ + 1]]
       ELSE [out |-> result, stats |-> stats]

\* SerializationCodec.serialize: what it returns or raises, and the
\* statistics it leaves
serialize(data, format_override, stats) ==
    LET selected_format == IF Falsy(format_override) THEN select_format(data)
                           ELSE format_override
        result == serialize_selected(data, selected_format)
    IN IF result.ok
       THEN [out |-> Ok(Blob(format_to_id(selected_format), result.val)),
             stats |-> [stats EXCEPT ![selected_format] = @ + 1]]
       ELSE IF selected_format # "json"
       THEN LET fallback == serialize_json(data) IN
            [out |-> IF fallback.ok THEN Ok(Blob(format_to_id("json"), fallback.val))
                     ELSE fallback,
             stats |-> stats]
       ELSE [out |-> result, stats |-> stats]

\* SerializationCodec.deserialize
deserialize(data) ==
    IF "empty_bytes" \in DOMAIN data
    THEN Raise("ValueError: Data too short to contain format header")
    ELSE LET format_name == id_to_format(data.tag)
             payload == data.body
         IN CASE format_name = "json" -> deserialize_json(payload)
              [] format_name = "msgpack" -> deserialize_msgpack(payload)
              [] format_name = "protobuf" -> deserialize_protobuf(payload)
              [] OTHER -> Raise("ValueError: Unknown format ID")

\* ---------------------------------------------------------------- state
VARIABLES
    running,         \* AdvancedServer.running
    pool_running,    \* WorkerPool.running
    request_queue,   \* WorkerPool.request_queue: work items, head first
    response_queue,  \* WorkerPool.response_queue: (client_id, response), head first
    worker_pc,       \* per worker thread: "unstarted", "get" (between two items:
                     \* at the loop test or inside request_queue.get), "proc",
                     \* "stopped"
    held,            \* per worker thread: the item it dequeued, <<>> when none
    broker_pc,       \* main thread: "init", "poll", "drain", "metrics", "cleanup",
                     \* "done", "exited"
    metrics_pc,      \* metrics thread: "unstarted", "sleep", "stopped"
    metrics,         \* AdvancedServer.metrics
    received,        \* history: messages returned by frontend.recv_multipart
    sent,            \* history: messages given to frontend.send_multipart
    config,          \* the ServerConfig the server and its pool were built with
    format_stats,    \* SerializationCodec._format_stats
    codec_last,      \* the last call on the codec: its arguments and outcome
    encoded,         \* the last blob serialize returned, and from what
    tagged,          \* history: blobs serialize returned since the last
                     \* reset_stats, per format of their tag byte
    codec_calls      \* history: number of calls on the codec

codec_vars == <<format_stats, codec_last, encoded, tagged, codec_calls>>

vars == <<running, pool_running, request_queue, response_queue, worker_pc, held,
          broker_pc, metrics_pc, metrics, received, sent, config,
         format_stats, codec_last, encoded, tagged, codec_calls>>

\* ------------------------------------------------------- client messages
Empty == Bytes("")
ClientA == Bytes("A")
ClientB == Bytes("B")
\* a ROUTER-assigned identity: five bytes, the first 0x00, not valid UTF-8
ClientRaw == RawBytes("\\x00\\x80\\x00\\x41\\xa7")
Cid1 == Bytes("c1")
Cid2 == Bytes("c2")
CidRaw == RawBytes("\\xff")
PayloadRaw == RawBytes("\\xff\\xfe")

\* [client_identity][empty][correlation_id][payload], and the three-part
\* message of a REQ socket that sends the payload alone
Messages ==
    { <<ClientA, Empty, Bytes(TXT_V1)>>,
      <<ClientA, Empty, Cid1, Bytes(TXT_V1)>>,
      <<ClientB, Empty, Cid2, Bytes(TXT_V3)>>,
      <<ClientB, Empty, Cid1, Bytes(TXT_NUM)>>,
      <<ClientB, Empty, Cid2, Bytes(TXT_V2), Bytes("extra")>>,
      <<ClientA, Empty, Cid2, Bytes(TXT_HEARTBEAT)>>,
      <<ClientRaw, Empty, CidRaw, Bytes(TXT_HEARTBEAT)>>,
      <<ClientA, Empty, Cid1, Bytes(TXT_MALFORMED)>>,
      <<ClientB, Empty, CidRaw, Bytes(TXT_MALFORMED)>>,
      <<ClientA, Empty, Cid2, PayloadRaw>>,
      <<ClientRaw, Empty, Cid1, Bytes(TXT_V1)>>,
      <<ClientB, Empty, CidRaw, Bytes(TXT_V1)>> }

\* -------------------------------------------------------------- WorkerPool
\* mutant of QueueFull: the capacity test is off by one
QueueFull_off_by_one(q) == config.max_queue_size > 0 /\ Len(q) > config.max_queue_size

\* mutant of QueueFull: the queue is created without maxsize, like the
\* response queue
QueueFull_unlimited(q) == FALSE

\* queue.Queue(maxsize): full when maxsize > 0 and qsize() >= maxsize
QueueFull(q) == config.max_queue_size > 0 /\ Len(q) >= config.max_queue_size

\* response_queue = queue.Queue(): maxsize defaults to 0, which is no limit
response_queue_maxsize == 0

\* mutant of ResponseQueueFull: the response queue is created with room for
\* one entry
ResponseQueueFull_one(q) == Len(q) >= 1

\* full() of the response queue, under which put blocks
ResponseQueueFull(q) == response_queue_maxsize > 0 /\ Len(q) >= response_queue_maxsize

\* mutant of submit_request: the item is appended whatever the queue holds
submit_request_unbounded(q, item) == [accepted |-> TRUE, queue |-> Append(q, item)]

\* WorkerPool.submit_request: put_nowait, or False on queue.Full
submit_request(q, item) ==
    IF QueueFull(q) THEN [accepted |-> FALSE, queue |-> q]
    ELSE [accepted |-> TRUE, queue |-> Append(q, item)]

\* ---------------------------------------------------------- AdvancedServer
\* json.dumps(response).encode("utf-8"): bytes holding the JSON text of d
JsonDumps(d) == [utf8 |-> TRUE, json |-> d]

\* _send_error_response: the message sent; correlation_id.decode() is
\* outside the try and its exception reaches the caller
send_error_response(client_id, correlation_id, message) ==
    LET cid == Utf8Decode(correlation_id) IN
    IF ~cid.ok THEN cid
    ELSE Ok(<<client_id, Empty,
              JsonDumps([status |-> "error",
                         message |-> message,
                         correlation_id |-> cid.val,
                         timestamp |-> TimeValue])>>)

\* _send_heartbeat_response
send_heartbeat_response(client_id) ==
    <<client_id, Empty,
      JsonDumps([status |-> "heartbeat_ack",
                 timestamp |-> TimeValue,
                 server_id |-> "server_<id>"])>>

\* What one call of _handle_frontend leaves behind: the request queue, the
\* messages sent (out), and the increments of requests_total and
\* requests_rejected
FrontendResult(q, out, total, rejected) ==
    [queue |-> q, out |-> out, total |-> total, rejected |-> rejected]

\* a send whose exception reaches the outer except sends nothing
Sending(r, rid) == IF r.ok THEN <<[frames |-> r.val, rid |-> rid]>> ELSE <<>>

\* mutant of on_malformed: the dropped message is counted as a rejection
on_malformed_counted(message, q, rid) == FrontendResult(q, <<>>, 0, 1)

\* len(message) < 4: return
on_malformed(message, q, rid) == FrontendResult(q, <<>>, 0, 0)

\* except json.JSONDecodeError: _send_error_response(..., "Invalid JSON")
on_invalid_json(client_id, correlation_id, q, rid) ==
    FrontendResult(q, Sending(send_error_response(client_id, correlation_id,
                                                  "Invalid JSON"), rid), 0, 0)

\* mutant of on_heartbeat: the heartbeat is counted as a request
on_heartbeat_counted(client_id, q, rid) ==
    FrontendResult(q, Sending(Ok(send_heartbeat_response(client_id)), rid), 1, 0)

\* data == "HEARTBEAT": _send_heartbeat_response(client_id)
on_heartbeat(client_id, q, rid) ==
    FrontendResult(q, Sending(Ok(send_heartbeat_response(client_id)), rid), 0, 0)

\* submit_request returned True
on_accepted(queue_after, rid) == FrontendResult(queue_after, <<>>, 1, 0)

\* mutant of on_rejected: the rejection is counted and logged, not answered
on_rejected_silent(client_id, correlation_id, q, rid) == FrontendResult(q, <<>>, 0, 1)

\* submit_request returned False
on_rejected(client_id, correlation_id, q, rid) ==
    FrontendResult(q, Sending(send_error_response(client_id, correlation_id,
                                                  "Server overloaded"), rid), 0, 1)

\* _handle_frontend on `message` with the request queue q.  An exception
\* that reaches the outer except (a failed decode) is logged and leaves
\* what was done before it.
handle_frontend(message, q, rid) ==
    IF Len(message) < 4 THEN on_malformed(message, q, rid)
    ELSE
      LET client_id == message[1]
          correlation_id == message[3]
          payload == message[4]
          text == Utf8Decode(payload)
      IN
      IF ~text.ok THEN FrontendResult(q, <<>>, 0, 0)
      ELSE
        LET data == JsonLoads(text.val) IN
        IF ~data.ok THEN on_invalid_json(client_id, correlation_id, q, rid)
        ELSE IF IsHeartbeat(data.val) THEN on_heartbeat(client_id, q, rid)
        ELSE
          LET cl == Utf8Decode(client_id)
              co == Utf8Decode(correlation_id)
          IN
          IF ~cl.ok \/ ~co.ok THEN FrontendResult(q, <<>>, 0, 0)
          ELSE
            LET s == submit_request(q, [client_id |-> cl.val,
                                        correlation_id |-> co.val,
                                        payload |-> data.val,
                                        rid |-> rid])
            IN
            IF s.accepted THEN on_accepted(s.queue, rid)
            ELSE on_rejected(client_id, correlation_id, q, rid)

\* ----------------------------------------------------------------- Init
\* the configuration of the runs checked: the bounds above
BoundedConfig ==
    [max_queue_size |-> max_queue_size, worker_processes |-> worker_processes,
     worker_threads |-> worker_threads]

\* the state after AdvancedServer(cfg) is constructed
Constructed(cfg) ==
    /\ config = cfg
    /\ running = FALSE
    /\ pool_running = FALSE
    /\ request_queue = <<>>
    /\ response_queue = <<>>
    /\ worker_pc = [w \in Workers |-> "unstarted"]
    /\ held = [w \in Workers |-> <<>>]
    /\ broker_pc = "init"
    /\ metrics_pc = "unstarted"
    /\ metrics = [requests_total |-> 0, requests_success |-> 0, requests_error |-> 0,
                  requests_rejected |-> 0, avg_processing_time |-> 0, queue_size |-> 0]
    /\ received = <<>>
    /\ sent = <<>>
    /\ format_stats = ZeroStats
    /\ codec_last = [op |-> "none"]
    /\ encoded = [op |-> "none"]
    /\ tagged = ZeroStats
    /\ codec_calls = 0

Init == Constructed(BoundedConfig)

\* WorkerPool.start: for i in range(self.config.worker_processes) a thread
\* is started; the other identities stay unused
launched(cfg) == 1..cfg.worker_processes

started_threads == 
    [w \in Workers |-> IF w \in launched(config) THEN "get" ELSE "unstarted"]

\* ------------------------------------------------------- dispatch loop
\* AdvancedServer.start up to the first poll: the sockets are bound, the
\* worker threads and the metrics thread are started, running is set
Start ==
    /\ broker_pc = "init"
    /\ pool_running' = TRUE
    /\ worker_pc' = started_threads
    /\ running' = TRUE
    /\ metrics_pc' = "sleep"
    /\ broker_pc' = "poll"
    /\ UNCHANGED <<request_queue, response_queue, held, metrics, received, sent>>
    /\ UNCHANGED <<config, codec_vars>>

\* mutant of after_handle_frontend: _handle_frontend has no outer except and
\* ends in the except of _main_loop, whose continue skips the drain
after_handle_frontend_escaped == IF running THEN "poll" ELSE "cleanup"

\* where the dispatch loop stands when _handle_frontend has returned; every
\* exception raised in it is caught by its own except and it returns
after_handle_frontend == "drain"

\* poll reports the frontend readable: _handle_frontend takes one message;
\* the clients send at most `limit` messages in the run
HandleFrontendWithin(message, limit) ==
    /\ broker_pc = "poll"
    /\ Len(received) < limit
    /\ LET r == handle_frontend(message, request_queue, Len(received) + 1) IN
        /\ request_queue' = r.queue
        /\ sent' = sent \o r.out
        /\ metrics' = [metrics EXCEPT !.requests_total = @ + r.total,
                                      !.requests_rejected = @ + r.rejected]
    /\ received' = Append(received, message)
    /\ broker_pc' = after_handle_frontend
    /\ UNCHANGED <<running, pool_running, response_queue, worker_pc, held, metrics_pc>>
    /\ UNCHANGED <<config, codec_vars>>

HandleFrontend(message) == HandleFrontendWithin(message, MaxRequests)

\* _handle_frontend when frontend.send_multipart raises in
\* _send_error_response or _send_heartbeat_response: their except logs it,
\* nothing is sent, what was counted before the send stays counted
HandleFrontendSendFailed(message) ==
    /\ broker_pc = "poll"
    /\ Len(received) < MaxRequests
    /\ LET r == handle_frontend(message, request_queue, Len(received) + 1) IN
        /\ r.out # <<>>
        /\ request_queue' = r.queue
        /\ metrics' = [metrics EXCEPT !.requests_total = @ + r.total,
                                      !.requests_rejected = @ + r.rejected]
    /\ received' = Append(received, message)
    /\ broker_pc' = after_handle_frontend
    /\ UNCHANGED <<running, pool_running, response_queue, worker_pc, held, metrics_pc,
                   sent>>
    /\ UNCHANGED <<config, codec_vars>>

\* poll returns after its 1000 ms with no client message
PollTimeout ==
    /\ broker_pc = "poll"
    /\ broker_pc' = "drain"
    /\ UNCHANGED <<running, pool_running, request_queue, response_queue, worker_pc,
                   held, metrics_pc, metrics, received, sent>>
    /\ UNCHANGED <<config, codec_vars>>

\* what _handle_worker_responses does with one dequeued entry
forward_response(entry) ==
    [frames |-> <<Utf8Encode(entry.client_id), Empty, JsonDumps(entry.response)>>,
     rid |-> entry.rid]

\* mutant of count_response: every response sent is counted as a success
count_response_as_success(m, response_data) ==
    [m EXCEPT !.requests_success = @ + 1]

\* mutant of count_response: a success is counted as an error as well
count_response_twice(m, response_data) ==
    IF "status" \in DOMAIN response_data /\ response_data.status = "success"
    THEN [m EXCEPT !.requests_success = @ + 1, !.requests_error = @ + 1]
    ELSE [m EXCEPT !.requests_error = @ + 1]

\* the counters after a response was sent: requests_success when
\* response_data.get("status") == "success", requests_error otherwise
count_response(m, response_data) ==
    IF "status" \in DOMAIN response_data /\ response_data.status = "success"
    THEN [m EXCEPT !.requests_success = @ + 1]
    ELSE [m EXCEPT !.requests_error = @ + 1]

\* one pass of the loop of _handle_worker_responses with an entry available
DrainOne ==
    /\ broker_pc = "drain"
    /\ response_queue # <<>>
    /\ LET entry == Head(response_queue) IN
        /\ sent' = Append(sent, forward_response(entry))
        /\ metrics' = count_response(metrics, entry.response)
    /\ response_queue' = Tail(response_queue)
    /\ UNCHANGED <<running, pool_running, request_queue, worker_pc, held, broker_pc,
                   metrics_pc, received>>
    /\ UNCHANGED <<config, codec_vars>>

\* mutant of after_send_failure: the try encloses the whole loop of
\* _handle_worker_responses, so the exception ends the drain and the
\* iteration of _main_loop
after_send_failure_escaped == IF running THEN "poll" ELSE "cleanup"

\* where the dispatch loop stands after the except inside the loop of
\* _handle_worker_responses: at the next get_response
after_send_failure == "drain"

\* one pass of the loop of _handle_worker_responses in which json.dumps or
\* frontend.send_multipart raises: the entry is gone, the counters of the
\* try block are not reached
DrainOneSendFailed ==
    /\ broker_pc = "drain"
    /\ response_queue # <<>>
    /\ response_queue' = Tail(response_queue)
    /\ broker_pc' = after_send_failure
    /\ UNCHANGED <<running, pool_running, request_queue, worker_pc, held,
                   metrics_pc, metrics, received, sent>>
    /\ UNCHANGED <<config, codec_vars>>

\* mutant of get_response_none: get_response waits without a timeout and
\* never reports an empty queue
get_response_none_blocking(q) == FALSE

\* WorkerPool.get_response(timeout) returns None: the timeout passed with
\* the response queue empty
get_response_none(q) == q = <<>>

\* get_response(timeout=0.001) returns None: the drain ends
DrainEmpty ==
    /\ broker_pc = "drain"
    /\ get_response_none(response_queue)
    /\ broker_pc' = "metrics"
    /\ UNCHANGED <<running, pool_running, request_queue, response_queue, worker_pc,
                   held, metrics_pc, metrics, received, sent>>
    /\ UNCHANGED <<config, codec_vars>>

\* mutant of main_loop_test: the loop is  while True
main_loop_test_ignored(flag) == "poll"

\* the test of  while self.running  in _main_loop; the finally of start
\* calls cleanup when the loop has ended
main_loop_test(flag) == IF flag THEN "poll" ELSE "cleanup"

\* _update_metrics, then the test of  while self.running
UpdateMetrics ==
    /\ broker_pc = "metrics"
    /\ metrics' = [metrics EXCEPT !.queue_size = Len(request_queue)]
    /\ broker_pc' = main_loop_test(running)
    /\ UNCHANGED <<running, pool_running, request_queue, response_queue, worker_pc,
                   held, metrics_pc, received, sent>>
    /\ UNCHANGED <<config, codec_vars>>

\* AdvancedServer.cleanup: stops the pool and closes the sockets
Cleanup ==
    /\ broker_pc = "cleanup"
    /\ running' = FALSE
    /\ pool_running' = FALSE
    /\ broker_pc' = "done"
    /\ UNCHANGED <<request_queue, response_queue, worker_pc, held, metrics_pc,
                   metrics, received, sent>>
    /\ UNCHANGED <<config, codec_vars>>

\* main returns after cleanup and the interpreter exits.  The worker threads
\* and the metrics thread are daemon threads: they are not joined and end
\* where they stand, a worker in the handler with the item it holds
ThreadKilled(pc) == IF pc \in {"stopped", "unstarted"} THEN pc ELSE "killed"

ProcessExit ==
    /\ broker_pc = "done"
    /\ broker_pc' = "exited"
    /\ worker_pc' = [w \in Workers |-> ThreadKilled(worker_pc[w])]
    /\ metrics_pc' = ThreadKilled(metrics_pc)
    /\ UNCHANGED <<running, pool_running, request_queue, response_queue, held,
                   metrics, received, sent>>
    /\ UNCHANGED <<config, codec_vars>>

\* signal_handler (SIGINT, SIGTERM)
Signal ==
    /\ running
    /\ running' = FALSE
    /\ UNCHANGED <<pool_running, request_queue, response_queue, worker_pc, held,
                   broker_pc, metrics_pc, metrics, received, sent>>
    /\ UNCHANGED <<config, codec_vars>>

\* metrics_loop: after its sleep, _update_metrics and the test of the loop
MetricsLoop ==
    /\ metrics_pc = "sleep"
    /\ metrics' = [metrics EXCEPT !.queue_size = Len(request_queue)]
    /\ metrics_pc' = IF running THEN "sleep" ELSE "stopped"
    /\ UNCHANGED <<running, pool_running, request_queue, response_queue, worker_pc,
                   held, broker_pc, received, sent>>
    /\ UNCHANGED <<config, codec_vars>>

\* ------------------------------------------------------- worker threads
\* the test of  while self.running  at the end of an iteration
NextIteration == IF pool_running THEN "get" ELSE "stopped"

\* mutant of dequeue: the head is read and left in the queue
dequeue_peek(q) == [item |-> Head(q), queue |-> q]

\* mutant of dequeue: the queue is a stack, get returns the newest item
dequeue_last(q) == [item |-> q[Len(q)], queue |-> SubSeq(q, 1, Len(q) - 1)]

\* request_queue.get returns the head of the queue
dequeue(q) == [item |-> Head(q), queue |-> Tail(q)]

WorkerGet(w) ==
    /\ worker_pc[w] = "get"
    /\ request_queue # <<>>
    /\ LET d == dequeue(request_queue) IN
        /\ held' = [held EXCEPT ![w] = <<d.item>>]
        /\ request_queue' = d.queue
    /\ worker_pc' = [worker_pc EXCEPT ![w] = "proc"]
    /\ UNCHANGED <<running, pool_running, response_queue, broker_pc, metrics_pc,
                   metrics, received, sent>>
    /\ UNCHANGED <<config, codec_vars>>

\* request_queue.get(timeout=1.0) raises queue.Empty: continue
WorkerTimeout(w) ==
    /\ worker_pc[w] = "get"
    /\ request_queue = <<>>
    /\ worker_pc' = [worker_pc EXCEPT ![w] = NextIteration]
    /\ UNCHANGED <<running, pool_running, request_queue, response_queue, held,
                   broker_pc, metrics_pc, metrics, received, sent>>
    /\ UNCHANGED <<config, codec_vars>>

\* The worker is at the test of  while self.running  when stop() has cleared
\* the flag: it leaves the loop whatever the request queue holds
WorkerLoopExit(w) ==
    /\ worker_pc[w] = "get"
    /\ ~pool_running
    /\ request_queue # <<>>
    /\ worker_pc' = [worker_pc EXCEPT ![w] = "stopped"]
    /\ UNCHANGED <<running, pool_running, request_queue, response_queue, held,
                   broker_pc, metrics_pc, metrics, received, sent>>
    /\ UNCHANGED <<config, codec_vars>>

\* mutant of worker_result: the item is unpacked as
\* (correlation_id, client_id, payload)
worker_result_swapped(item) ==
    [client_id |-> item.correlation_id,
     response |-> WorkerResponse(item.client_id, item.payload),
     rid |-> item.rid]

\* the entry a worker puts on the response queue for the item it holds
worker_result(item) ==
    [client_id |-> item.client_id,
     response |-> WorkerResponse(item.correlation_id, item.payload),
     rid |-> item.rid]

\* the item is processed and its response put on the response queue;
\* response_queue.put waits while the queue is full
WorkerFinish(w) ==
    /\ worker_pc[w] = "proc"
    /\ ~ResponseQueueFull(response_queue)
    /\ response_queue' = Append(response_queue, worker_result(held[w][1]))
    /\ held' = [held EXCEPT ![w] = <<>>]
    /\ worker_pc' = [worker_pc EXCEPT ![w] = NextIteration]
    /\ UNCHANGED <<running, pool_running, request_queue, broker_pc, metrics_pc,
                   metrics, received, sent>>
    /\ UNCHANGED <<config, codec_vars>>

Worker(w) == WorkerGet(w) \/ WorkerTimeout(w) \/ WorkerLoopExit(w) \/ WorkerFinish(w)

Broker ==
    \/ Start
    \/ \E message \in Messages : HandleFrontend(message)
    \/ PollTimeout
    \/ DrainOne
    \/ DrainEmpty
    \/ UpdateMetrics
    \/ Cleanup
    \/ ProcessExit

Next ==
    \/ Broker
    \/ \E w \in Workers : Worker(w)
    \/ MetricsLoop
    \/ Signal

Spec == Init /\ [][Next]_vars

\* The dispatch loop and every worker thread are scheduled again and again
\* (OS threads); client traffic, the metrics thread and signals are not
\* required to happen.
FairSpec ==
    /\ Init /\ [][Next]_vars
    /\ WF_vars(Broker)
    /\ \A w \in Workers : WF_vars(Worker(w))

\* ------------------------------------------------- WorkerPool on its own
\* The pool driven through its interface by any caller: start, submit_request,
\* get_response, stop.  The caller hands over decoded JSON documents; received
\* records each call as the message it would stem from.
PoolTexts == {TXT_V1, TXT_V2, TXT_NUM, TXT_NOMODEL, TXT_RAGGED, TXT_WRAPPED}

\* WorkerPool.start
PoolStart ==
    /\ ~pool_running
    /\ \A w \in Workers : worker_pc[w] = "unstarted"
    /\ pool_running' = TRUE
    /\ worker_pc' = started_threads
    /\ UNCHANGED <<running, request_queue, response_queue, held, broker_pc,
                   metrics_pc, metrics, received, sent>>
    /\ UNCHANGED <<config, codec_vars>>

\* WorkerPool.submit_request(client_id, correlation_id, payload)
PoolSubmit(client_id, correlation_id, text) ==
    /\ Len(received) < MaxRequests
    /\ LET s == submit_request(request_queue,
                               [client_id |-> client_id,
                                correlation_id |-> correlation_id,
                                payload |-> JsonLoads(text).val,
                                rid |-> Len(received) + 1])
       IN request_queue' = s.queue
    /\ received' = Append(received, <<Bytes(client_id), Empty, Bytes(correlation_id),
                                      Bytes(text)>>)
    /\ UNCHANGED <<running, pool_running, response_queue, worker_pc, held, broker_pc,
                   metrics_pc, metrics, sent>>
    /\ UNCHANGED <<config, codec_vars>>

\* WorkerPool.get_response returns an entry
PoolGetResponse ==
    /\ response_queue # <<>>
    /\ response_queue' = Tail(response_queue)
    /\ UNCHANGED <<running, pool_running, request_queue, worker_pc, held, broker_pc,
                   metrics_pc, metrics, received, sent>>
    /\ UNCHANGED <<config, codec_vars>>

\* WorkerPool.stop
PoolStop ==
    /\ pool_running
    /\ pool_running' = FALSE
    /\ UNCHANGED <<running, request_queue, response_queue, worker_pc, held, broker_pc,
                   metrics_pc, metrics, received, sent>>
    /\ UNCHANGED <<config, codec_vars>>

PoolNext ==
    \/ PoolStart
    \/ \E text \in PoolTexts : PoolSubmit("A", "c1", text)
    \/ PoolGetResponse
    \/ PoolStop
    \/ \E w \in Workers : Worker(w)

PoolSpec == Init /\ [][PoolNext]_vars

\* Every worker thread is scheduled again and again (OS threads); the caller
\* of the pool is not required to do anything.
FairPoolSpec == PoolSpec /\ \A w \in Workers : WF_vars(Worker(w))

\* The same program with a frontend socket whose send_multipart may raise
NextSendFail ==
    \/ Next
    \/ \E message \in Messages : HandleFrontendSendFailed(message)
    \/ DrainOneSendFailed

SendFailSpec == Init /\ [][NextSendFail]_vars

\* ------------------------------------------------- the server with --dev
\* main with --dev: worker_processes is 1 and worker_threads is 2; the
\* request queue keeps its default size, which the bounded traffic cannot fill
DevConfig ==
    [max_queue_size |-> MaxRequests, worker_processes |-> 1, worker_threads |-> 2]

DevSpec == Constructed(DevConfig) /\ [][Next]_vars

\* ----------------------------------------- a burst against a small pool
\* The smallest pool: room for one waiting item and one worker thread.
SmallConfig ==
    [max_queue_size |-> 1, worker_processes |-> 1, worker_threads |-> worker_threads]

\* more requests than the small pool can have outstanding
BurstRequests == MaxRequests + 2

\* requests the pool accepts: one that succeeds and one that fails in the worker
BurstMessages ==
    { <<ClientA, Empty, Cid1, Bytes(TXT_V1)>>,
      <<ClientB, Empty, Cid2, Bytes(TXT_V3)>> }

BurstNext ==
    \/ Start
    \/ \E message \in BurstMessages : HandleFrontendWithin(message, BurstRequests)
    \/ PollTimeout
    \/ DrainOne
    \/ DrainEmpty
    \/ UpdateMetrics
    \/ Cleanup
    \/ ProcessExit
    \/ \E w \in Workers : Worker(w)
    \/ MetricsLoop
    \/ Signal

BurstSpec == Constructed(SmallConfig) /\ [][BurstNext]_vars

\* The main thread and the worker thread are scheduled again and again.
FairDevSpec ==
    /\ DevSpec
    /\ WF_vars(Broker)
    /\ \A w \in Workers : WF_vars(Worker(w))

\* ------------------------------------------------- the codec on its own
\* A caller of SerializationCodec makes at most MaxCodecCalls calls.
MaxCodecCalls == 2

server_vars == <<running, pool_running, request_queue, response_queue, worker_pc,
                 held, broker_pc, metrics_pc, metrics, received, sent, config>>

\* list lengths around the two thresholds
ElementCounts == {500, 999, 1000, 50000, 99999, 100000, 500000}

\* the values the caller serializes
CodecValues ==
    {JNull, JBool(TRUE), JNum(5), JFloat("1.5"), JFloat("nan"), JFloat("inf"),
     JFloat("-inf"), JStr("abc"), JStr("NaN"),
     JArr(<<JNum(1), JStr("Infinity")>>),
     JObj([k |-> JStr("NaN")]),
     JObj([k |-> JFloat("nan"), m |-> JArr(<<JNum(1), JNum(2)>>)]),
     JObj([matrix |-> PyListOf(JNum(1), 1000), model |-> JObj([name |-> JStr("m")])]),
     JObj([a |-> JArr(<<PyListOf(JNum(1), 1000)>>)]),
     JObj([schema_version |-> JNum(1), matrix |-> Matrix1234, model |-> TestModel]),
     PyTuple(<<JNum(1), JNum(2)>>),
     PyListOf(PyTuple(<<JNum(1)>>), 1000),
     PyBigInt("1180591620717411303424"),
     PyBytes("00"),
     PyDeepList(600),
     PyListOf(PyDeepList(600), 1000)}
    \cup {PyListOf(JNum(1), n) : n \in ElementCounts}

\* the format_override arguments: None, the three formats, the empty
\* string and a name that is no format
Overrides == {PyNone, "json", "msgpack", "protobuf", "", "yaml"}

\* tag bytes a blob handed to deserialize may begin with
TagBytes == {0, 1, 2, 3, 4, 255}

\* bodies of blobs that did not come from serialize
ForeignBodies == {EmptyBody, [json_text |-> JsonText(JNum(5))], [msgpack |-> JNum(5)],
                  [msgpack |-> JNum(53)]}

\* blobs the caller hands to deserialize: the empty one, any tag byte before
\* a foreign body or before the body serialize returned last
DecodeInputs ==
    {EmptyBlob}
    \cup {Blob(t, b) : t \in TagBytes, b \in ForeignBodies}
    \cup (IF encoded.op = "serialize"
          THEN {Blob(t, encoded.blob.body) : t \in TagBytes \cup {encoded.blob.tag}}
          ELSE {})

Serialize(data, format_override) ==
    /\ codec_calls < MaxCodecCalls
    /\ LET r == serialize(data, format_override, format_stats) IN
        /\ format_stats' = r.stats
        /\ codec_last' = [op |-> "serialize", data |-> data,
                          format_override |-> format_override, out |-> r.out]
        /\ encoded' = IF r.out.ok
                      THEN [op |-> "serialize", data |-> data,
                            format_override |-> format_override, blob |-> r.out.val]
                      ELSE encoded
        /\ tagged' = IF r.out.ok
                     THEN [tagged EXCEPT ![id_to_format(r.out.val.tag)] = @ + 1]
                     ELSE tagged
    /\ codec_calls' = codec_calls + 1
    /\ UNCHANGED server_vars

Deserialize(data) ==
    /\ codec_calls < MaxCodecCalls
    /\ codec_last' = [op |-> "deserialize", blob |-> data, out |-> deserialize(data)]
    /\ codec_calls' = codec_calls + 1
    /\ UNCHANGED <<format_stats, encoded, tagged>>
    /\ UNCHANGED server_vars

ResetStats ==
    /\ codec_calls < MaxCodecCalls
    /\ format_stats' = ZeroStats
    /\ tagged' = ZeroStats
    /\ codec_last' = [op |-> "reset_stats"]
    /\ codec_calls' = codec_calls + 1
    /\ UNCHANGED encoded
    /\ UNCHANGED server_vars

CodecNext ==
    \/ \E data \in CodecValues, format_override \in Overrides :
            Serialize(data, format_override)
    \/ \E data \in DecodeInputs : Deserialize(data)
    \/ ResetStats

CodecSpec == Init /\ [][CodecNext]_vars

\* ================================================================ claims
\* what a client reads from the third frame of a reply: json.loads
ReplyBody(i) == sent[i].frames[3].json

\* only a worker adds processing_time to a response
FromWorker(i) == "processing_time" \in DOMAIN ReplyBody(i)

Holding == {w \in Workers : held[w] # <<>>}

\* a reply has been sent to the identity that sent request rid
Answered(rid) ==
    /\ rid <= Len(received)
    /\ \E i \in 1..Len(sent) : sent[i].rid = rid /\ sent[i].frames[1] = received[rid][1]

\* C1: under fair scheduling of the dispatch loop and the workers, every
\* four-part request received while the service runs is eventually answered
\* by a reply sent to its client identity (or the service has been told to
\* stop).
C1_EveryRequestAnswered ==
    \A rid \in 1..MaxRequests :
        []((rid <= Len(received) /\ Len(received[rid]) = 4)
              => <>(Answered(rid) \/ ~running))

\* the places a request can be in after the frontend took it
InRequestQueue(rid) == {i \in 1..Len(request_queue) : request_queue[i].rid = rid}
InWorkers(rid) == {w \in Holding : held[w][1].rid = rid}
InResponseQueue(rid) == {i \in 1..Len(response_queue) : response_queue[i].rid = rid}
RepliesTo(rid) == {i \in 1..Len(sent) : sent[i].rid = rid}

\* C2: no request is answered twice: a received request is, at any time, in
\* at most one of: the request queue (once), one worker's hands, the response
\* queue (once), the replies sent (once).  So no item is held by two workers,
\* none yields two results, none gets two replies, and a request answered
\* at once by the broker is never also queued.
C2_AnsweredAtMostOnce ==
    \A rid \in 1..Len(received) :
        Cardinality(InRequestQueue(rid)) + Cardinality(InWorkers(rid))
          + Cardinality(InResponseQueue(rid)) + Cardinality(RepliesTo(rid)) <= 1

\* two workers hold two items at the same time
C2_Witness ==
    \E w1, w2 \in Workers :
        /\ w1 # w2
        /\ held[w1] # <<>> /\ held[w2] # <<>>
        /\ held[w1][1].rid # held[w2][1].rid

\* C3: every reply the broker sends carries a correlation_id equal to the
\* correlation id of the request it answers.
C3_EveryReplyEchoesCorrelationId ==
    \A i \in 1..Len(sent) :
        LET request == received[sent[i].rid] IN
        /\ Len(request) >= 4
        /\ "correlation_id" \in DOMAIN ReplyBody(i)
        /\ Utf8Decode(request[3]) = Ok(ReplyBody(i).correlation_id)

\* C4: every worker-produced reply carries the correlation id of the request
\* it stems from and is addressed to the identity that sent that request; two
\* worker-produced replies with the same correlation id stem from two requests.
C4_CorrelationIntegrity ==
    /\ \A i \in 1..Len(sent) :
          FromWorker(i) =>
            LET request == received[sent[i].rid] IN
            /\ Len(request) >= 4
            /\ sent[i].frames[1] = request[1]
            /\ Utf8Decode(request[3]) = Ok(ReplyBody(i).correlation_id)
    /\ \A i, j \in 1..Len(sent) :
          (i # j /\ FromWorker(i) /\ FromWorker(j)
             /\ ReplyBody(i).correlation_id = ReplyBody(j).correlation_id)
            => sent[i].rid # sent[j].rid

\* two clients, two correlation ids, the replies sent in the reverse order
C4_Witness ==
    /\ Len(sent) = 2
    /\ FromWorker(1) /\ FromWorker(2)
    /\ sent[1].rid = 2 /\ sent[2].rid = 1
    /\ sent[1].frames[1] # sent[2].frames[1]
    /\ ReplyBody(1).correlation_id # ReplyBody(2).correlation_id

\* --- one call of _handle_frontend, seen from outside
\* this step takes a message from the frontend socket
Took == broker_pc = "poll" /\ Len(received') = Len(received) + 1
Taken == received'[Len(received')]

\* the payload of m is UTF-8 JSON text
ParsedPayload(m) == JsonLoads(Utf8Decode(m[4]).val).val
Parses(m) == Len(m) >= 4 /\ Utf8Decode(m[4]).ok /\ JsonLoads(Utf8Decode(m[4]).val).ok

\* the payload of m decodes to the literal string "HEARTBEAT"
HeartbeatMessage(m) ==
    /\ Parses(m)
    /\ "str" \in DOMAIN ParsedPayload(m)
    /\ ParsedPayload(m).str = "HEARTBEAT"

\* m is handed to WorkerPool.submit_request
Submitted(m) ==
    /\ Parses(m)
    /\ ~HeartbeatMessage(m)
    /\ Utf8Decode(m[1]).ok
    /\ Utf8Decode(m[3]).ok

\* C5: submit_request never blocks: the call of _handle_frontend that makes
\* it ends in the same step; with max_queue_size items queued it returns
\* false (requests_total is not incremented) and leaves both queues as they
\* were; otherwise it returns true (requests_total is incremented) and the
\* item (client_id, correlation_id, payload) is the new tail of the queue.
C5_SubmitNeverBlocks ==
    [][ (Took /\ Submitted(Taken)) =>
          /\ broker_pc' = "drain"
          /\ IF Len(request_queue) >= max_queue_size
             THEN /\ request_queue' = request_queue
                  /\ response_queue' = response_queue
                  /\ metrics'.requests_total = metrics.requests_total
             ELSE /\ request_queue' =
                        Append(request_queue,
                               [client_id |-> Utf8Decode(Taken[1]).val,
                                correlation_id |-> Utf8Decode(Taken[3]).val,
                                payload |-> ParsedPayload(Taken),
                                rid |-> Len(received')])
                  /\ metrics'.requests_total = metrics.requests_total + 1
      ]_vars

\* one request was accepted, the next one found the queue full
C5_Witness ==
    /\ broker_pc = "drain"
    /\ Len(received) = 2
    /\ metrics.requests_total = 1
    /\ metrics.requests_rejected = 1
    /\ Len(request_queue) = max_queue_size
    /\ request_queue[1].rid = 1

Overloaded(i) ==
    /\ ReplyBody(i).status = "error"
    /\ "message" \in DOMAIN ReplyBody(i)
    /\ ReplyBody(i).message = "Server overloaded"

\* C6: when submit is rejected because the queue is full, the same call of
\* _handle_frontend increments requests_rejected by one, leaves
\* requests_total, and sends the client one error envelope "Server
\* overloaded" with the request's correlation id; the request is never in
\* the request queue, with a worker or in the response queue.
C6_RejectionAnswered ==
    /\ [][ (Took /\ Submitted(Taken) /\ Len(request_queue) >= max_queue_size) =>
             /\ metrics'.requests_rejected = metrics.requests_rejected + 1
             /\ metrics'.requests_total = metrics.requests_total
             /\ Len(sent') = Len(sent) + 1
             /\ SubSeq(sent', 1, Len(sent)) = sent
             /\ LET reply == sent'[Len(sent')] IN
                 /\ reply.rid = Len(received')
                 /\ reply.frames[1] = Taken[1]
                 /\ reply.frames[3].json.status = "error"
                 /\ reply.frames[3].json.message = "Server overloaded"
                 /\ reply.frames[3].json.correlation_id = Utf8Decode(Taken[3]).val
         ]_vars
    /\ [](\A i \in 1..Len(sent) :
            Overloaded(i) =>
              /\ InRequestQueue(sent[i].rid) = {}
              /\ InWorkers(sent[i].rid) = {}
              /\ InResponseQueue(sent[i].rid) = {}
              /\ RepliesTo(sent[i].rid) = {i})

\* the second request was rejected and answered, then the first one's
\* result was sent
C6_Witness ==
    /\ Len(sent) = 2
    /\ Overloaded(1) /\ sent[1].rid = 2
    /\ FromWorker(2) /\ sent[2].rid = 1
    /\ metrics.requests_rejected = 1

\* C7: the request queue holds between 0 and max_queue_size items.
C7_QueueBounded == Len(request_queue) >= 0 /\ Len(request_queue) <= max_queue_size

\* the queue is at capacity again while a worker is busy
C7_Witness == Len(request_queue) = max_queue_size /\ Holding # {}

C9_HeartbeatIsolation ==
    [][ (Took /\ HeartbeatMessage(Taken)) =>
          /\ broker_pc' = "drain"
          /\ Len(sent') = Len(sent) + 1
          /\ SubSeq(sent', 1, Len(sent)) = sent
          /\ sent'[Len(sent')].rid = Len(received')
          /\ sent'[Len(sent')].frames[1] = Taken[1]
          /\ sent'[Len(sent')].frames[3].json.status = "heartbeat_ack"
          /\ request_queue' = request_queue
          /\ metrics' = metrics
      ]_vars

\* a heartbeat was just answered while the request queue is full
C9_Witness ==
    /\ broker_pc = "drain"
    /\ Len(request_queue) = max_queue_size
    /\ Len(received) = 2 /\ HeartbeatMessage(received[2])
    /\ sent # <<>>
    /\ sent[Len(sent)].rid = 2
    /\ ReplyBody(Len(sent)).status = "heartbeat_ack"

C11_UnparsablePayloadAnswered ==
    [][ (Took /\ Len(Taken) = 4 /\ ~Parses(Taken)) =>
          /\ Len(sent') = Len(sent) + 1
          /\ SubSeq(sent', 1, Len(sent)) = sent
          /\ LET reply == sent'[Len(sent')] IN
              /\ reply.rid = Len(received')
              /\ reply.frames[1] = Taken[1]
              /\ reply.frames[3].json.status = "error"
              /\ reply.frames[3].json.message = "Invalid JSON"
              /\ Utf8Decode(Taken[3]) = Ok(reply.frames[3].json.correlation_id)
          /\ request_queue' = request_queue
          /\ metrics'.requests_total = metrics.requests_total
      ]_vars

\* --- one step of a worker thread, seen from outside
\* worker w ends the processing of the item it holds in this step
Finishes(w) == worker_pc[w] = "proc" /\ worker_pc'[w] # "proc"

\* C12: when _process_request raises on the item a worker holds (validation
\* failure, missing field, non-object payload, numeric conversion error),
\* the worker puts exactly one entry on the response queue: the item's
\* client identity with a response of status error, the exception's text as
\* message and the item's correlation id; the thread survives: while the
\* pool runs it is back at request_queue.get.
C12_WorkerCatchesException ==
    [][ \A w \in Workers :
          (Finishes(w) /\ ~process_request(held[w][1].payload).ok) =>
            LET item == held[w][1] IN
            /\ Len(response_queue') = Len(response_queue) + 1
            /\ SubSeq(response_queue', 1, Len(response_queue)) = response_queue
            /\ LET entry == response_queue'[Len(response_queue')] IN
                /\ entry.client_id = item.client_id
                /\ entry.rid = item.rid
                /\ entry.response.status = "error"
                /\ entry.response.message = process_request(item.payload).val
                /\ entry.response.correlation_id = item.correlation_id
            /\ held'[w] = <<>>
            /\ pool_running => worker_pc'[w] = "get"
      ]_vars

\* two items failed in the workers for different reasons, both error
\* responses are on the response queue, and every worker thread is alive at
\* request_queue.get
C12_Witness ==
    /\ Len(response_queue) = 2
    /\ response_queue[1].response.status = "error"
    /\ response_queue[2].response.status = "error"
    /\ response_queue[1].response.message = "ValidationError"
    /\ response_queue[2].response.message = "ValueError: inhomogeneous shape"
    /\ pool_running
    /\ \A w \in Workers : worker_pc[w] = "get"

\* a success reply for request rid has been sent to the identity that sent it
AnsweredSuccess(rid) ==
    \E i \in RepliesTo(rid) :
        /\ sent[i].frames[1] = received[rid][1]
        /\ ReplyBody(i).status = "success"

\* m is what the ROUTER socket receives from a REQ client that sent the
\* valid v1 payload of test_v1_sum alone: [identity][empty][payload]
FromReqClient(m) == Len(m) = 3 /\ m[2] = Empty /\ m[3] = Bytes(TXT_V1)

\* C13: under fair scheduling of the dispatch loop and the workers, a valid
\* payload sent by a REQ-socket client (three parts at the broker) is
\* eventually answered with a success reply (or the service has been told to
\* stop).
C13_ReqClientGetsSuccess ==
    \A rid \in 1..MaxRequests :
        []((rid <= Len(received) /\ FromReqClient(received[rid]))
              => <>(AnsweredSuccess(rid) \/ ~running))

\* the sum of the entries of a matrix, entry by entry
Entries(m) == UNION {{<<i, j>> : j \in 1..Len(m.arr[i].arr)} : i \in 1..Len(m.arr)}

RECURSIVE EntrySum(_, _)
EntrySum(m, S) ==
    IF S = {} THEN 0
    ELSE LET e == CHOOSE x \in S : TRUE
         IN m.arr[e[1]].arr[e[2]].num + EntrySum(m, S \ {e})

\* the request payload of a work item: the nested document of the enveloped
\* format {"payload": ...}, the document itself in the legacy format
RequestPayload(p) == IF IsObj(p) /\ HasKey(p, "payload") THEN p.obj.payload ELSE p

\* p is a v1 or v2 matrix/model object with a rectangular integer matrix
ValidMatrixModel(p) ==
    /\ IsObj(p)
    /\ HasKey(p, "schema_version") /\ IsNum(p.obj.schema_version)
    /\ p.obj.schema_version.num \in {1, 2}
    /\ SchemaValid(p, p.obj.schema_version.num)
    /\ Rectangular(p.obj.matrix)

\* body is the success response for the valid object p
SuccessFor(body, p) ==
    /\ body.status = "success"
    /\ body.matrix_sum = EntrySum(p.obj.matrix, Entries(p.obj.matrix))
    /\ body.model_checked = p.obj.model.obj.name.str
    /\ body.schema_version_used = p.obj.schema_version.num
    /\ {"matrix_shape", "data_type", "processing_time"} \subseteq DOMAIN body

DeclaresUnsupported(m) ==
    /\ Parses(m)
    /\ IsObj(ParsedPayload(m))
    /\ HasKey(ParsedPayload(m), "schema_version")
    /\ ~(IsNum(ParsedPayload(m).obj.schema_version)
           /\ ParsedPayload(m).obj.schema_version.num \in {1, 2})

\* body is the error response for the version that m declares
UnsupportedFor(body, m) ==
    /\ body.status = "error"
    /\ "message" \in DOMAIN body
    /\ body.message =
         "Unsupported schema version: " \o PyStr(ParsedPayload(m).obj.schema_version)
    /\ Utf8Decode(m[3]) = Ok(body.correlation_id)

C16_ResponseQueueHasCapacity ==
    /\ response_queue_maxsize > 0
    /\ Len(response_queue) <= response_queue_maxsize

\* C17: no work item is left behind by shutdown: when the dispatch loop has
\* run cleanup (WorkerPool.stop) and every worker thread has ended, the
\* request queue is empty.
C17_NoItemLeftAtShutdown ==
    (broker_pc = "done" /\ \A w \in Workers : worker_pc[w] = "stopped")
      => request_queue = <<>>

\* C18: under fair scheduling of the worker threads, once stop() has cleared
\* the running flag of a started pool every worker thread ends: the idle one
\* at its next loop test, the busy one after putting its response; none
\* waits for ever on either queue.
C18_WorkersExitAfterStop ==
    (~pool_running /\ \A w \in Workers : worker_pc[w] # "unstarted")
      ~> (\A w \in Workers : worker_pc[w] = "stopped")

\* every worker thread has ended; one that was busy when stop was called has
\* put its response on the response queue, and an item is left in the
\* request queue
C18_Witness ==
    /\ ~pool_running
    /\ \A w \in Workers : worker_pc[w] = "stopped"
    /\ response_queue # <<>>
    /\ request_queue # <<>>

\* this step is a call of _handle_frontend on a message of four parts or
\* more that sends nothing and queues nothing: an exception ended it (a
\* failed decode, a failed send)
FrontendRaised ==
    /\ Took
    /\ Len(Taken) >= 4
    /\ sent' = sent
    /\ request_queue' = request_queue

\* C19: an exception raised while _handle_frontend handles one message is
\* caught: the running flags are as before, no thread ends, and the dispatch
\* loop goes on to the drain of that iteration.
C19_FrontendExceptionCaught ==
    [][ FrontendRaised =>
          /\ running' = running
          /\ pool_running' = pool_running
          /\ worker_pc' = worker_pc
          /\ broker_pc' = "drain"
      ]_vars

\* the send of the "Invalid JSON" envelope for the first message failed, and
\* the request after it was served by the still running service
C19_Witness ==
    /\ Len(received) = 2
    /\ received[1] = <<ClientA, Empty, Cid1, Bytes(TXT_MALFORMED)>>
    /\ RepliesTo(1) = {}
    /\ AnsweredSuccess(2)
    /\ running

\* this step is a pass of the drain loop that takes an entry from the
\* response queue and sends nothing
DrainSendFailed ==
    /\ broker_pc = "drain"
    /\ Len(response_queue') < Len(response_queue)
    /\ sent' = sent

\* C20: when serializing or sending one worker response fails during the
\* drain, only that entry is lost, requests_success and requests_error are
\* left as they were, and the drain goes on; a drain ends only when the
\* response queue is empty.
C20_DrainContinuesAfterFailure ==
    /\ [][ DrainSendFailed =>
             /\ response_queue' = Tail(response_queue)
             /\ metrics' = metrics
             /\ broker_pc' = "drain"
         ]_vars
    /\ [][ (broker_pc = "drain" /\ broker_pc' # "drain") =>
             response_queue = <<>> /\ sent' = sent
         ]_vars

\* of two accepted requests the response of the first was lost to a failed
\* send, the response of the second was then sent, and the drain goes on
C20_Witness ==
    /\ broker_pc = "drain"
    /\ metrics.requests_total = 2
    /\ request_queue = <<>> /\ response_queue = <<>> /\ Holding = {}
    /\ Len(sent) = 1 /\ FromWorker(1) /\ sent[1].rid = 2
    /\ metrics.requests_success + metrics.requests_error = 1

\* this step is one of the dispatch loop: a call of _handle_frontend, a pass
\* of the drain, or _update_metrics at the end of the iteration
DispatchLoopStep ==
    /\ broker_pc \in {"poll", "drain", "metrics"}
    /\ broker_pc' # broker_pc \/ response_queue' # response_queue

\* C21: every write to a field of the metrics is made by the dispatch loop:
\* a step that changes metrics is a step of the dispatch loop.
C21_MetricsWrittenByDispatchLoopOnly ==
    [][ metrics' # metrics => DispatchLoopStep ]_vars

\* C22: every reply sent to a client carries a status field and a timestamp
\* field.
C22_ReplyHasStatusAndTimestamp ==
    \A i \in 1..Len(sent) : {"status", "timestamp"} \subseteq DOMAIN ReplyBody(i)

\* the payload of m is well-formed JSON that is neither an object nor the
\* heartbeat string
NonObjectPayload(m) ==
    /\ Parses(m)
    /\ ~IsObj(ParsedPayload(m))
    /\ ~HeartbeatMessage(m)

\* C30: a four-part request whose payload is well-formed JSON but not an
\* object and not the heartbeat string is answered in the call of
\* _handle_frontend that takes it with one error envelope that carries its
\* correlation id, and is not put on the request queue.
C30_NonObjectRejectedAtBroker ==
    [][ (Took /\ Len(Taken) = 4 /\ NonObjectPayload(Taken)) =>
          /\ Len(sent') = Len(sent) + 1
          /\ SubSeq(sent', 1, Len(sent)) = sent
          /\ LET reply == sent'[Len(sent')] IN
              /\ reply.rid = Len(received')
              /\ reply.frames[1] = Taken[1]
              /\ reply.frames[3].json.status = "error"
              /\ Utf8Decode(Taken[3]) = Ok(reply.frames[3].json.correlation_id)
          /\ request_queue' = request_queue
      ]_vars

\* C23: the dispatch loop never waits for a worker.  Wherever it stands in
\* an iteration, its next step can be taken whatever the workers are doing:
\* the poll returns with or without a message, a pass of the drain takes the
\* entry at hand, the drain ends as soon as the response queue is found
\* empty, and the metrics update follows.  An iteration is one poll step, one
\* pass per response-queue entry, the end of the drain and one metrics step.
C23_BrokerNeverBlocksOnWorkers ==
    /\ [](/\ broker_pc = "poll" => ENABLED PollTimeout
          /\ (broker_pc = "drain" /\ response_queue # <<>>) => ENABLED DrainOne
          /\ (broker_pc = "drain" /\ response_queue = <<>>) => ENABLED DrainEmpty
          /\ broker_pc = "metrics" => ENABLED UpdateMetrics)
    /\ [][ (broker_pc = "poll" /\ broker_pc' # "poll") => broker_pc' = "drain" ]_vars
    /\ [][ (broker_pc = "drain" /\ Len(response_queue') < Len(response_queue)) =>
             /\ response_queue' = Tail(response_queue)
             /\ broker_pc' = "drain"
         ]_vars
    /\ [][ (broker_pc = "drain" /\ broker_pc' # "drain") =>
             /\ response_queue = <<>>
             /\ broker_pc' = "metrics"
         ]_vars
    /\ [][ (broker_pc = "metrics" /\ broker_pc' # "metrics") =>
             broker_pc' \in {"poll", "cleanup"}
         ]_vars

\* every worker is busy with an item and has produced nothing, and the
\* dispatch loop has finished the iteration and is back at the poll
C23_Witness ==
    /\ Holding = Workers
    /\ response_queue = <<>> /\ sent = <<>>
    /\ broker_pc = "poll"
    /\ Len(received) = MaxRequests
    /\ running

\* ---------------------------------------------------------------- codec
FormatErrors ==
    {"ValueError: Data too short to contain format header",
     "ValueError: Unknown format ID"}

UnrecognizedBlob(b) == "empty_bytes" \in DOMAIN b \/ b.tag \notin {1, 2, 3}

\* C24: deserialize of the empty input, or of an input whose first byte is
\* none of the tags 1, 2, 3, raises the format error and returns no value
C24_UnrecognizedTagIsFormatError ==
    (codec_last.op = "deserialize" /\ UnrecognizedBlob(codec_last.blob)) =>
        /\ ~codec_last.out.ok
        /\ codec_last.out.val \in FormatErrors

\* the selected encoder is msgpack or its alias, it cannot write the value,
\* and JSON can
BinarySelected(data, format_override) ==
    (IF Falsy(format_override) THEN select_format(data) ELSE format_override)
        \in {"msgpack", "protobuf"}

OnlyJsonCanWrite(data) == PackOutcome(data) # "ok" /\ JsonSerializable(data)

\* C25: when msgpack or its alias is selected for a value it cannot write
\* and JSON can, serialize returns a blob with tag 1 whose body is the JSON
\* text of the value, and deserialize of that blob returns a value
C25_FallbackIsTaggedJson ==
    (/\ codec_last.op = "serialize"
     /\ BinarySelected(codec_last.data, codec_last.format_override)
     /\ OnlyJsonCanWrite(codec_last.data)) =>
        /\ codec_last.out.ok
        /\ codec_last.out.val = Blob(1, [json_text |-> JsonText(codec_last.data)])
        /\ deserialize(codec_last.out.val).ok

\* the values the round trip is promised for: None, bool, int, float with
\* nan and the infinities, str, list and str-keyed dict, nested
RECURSIVE Representable(_)
Representable(v) ==
    CASE IsArr(v) -> \A i \in 1..Len(v.arr) : Representable(v.arr[i])
      [] IsObj(v) -> \A k \in DOMAIN v.obj : Representable(v.obj[k])
      [] IsListOf(v) -> Representable(v.item)
      [] IsTuple(v) -> FALSE
      [] IsBytes(v) -> FALSE
      [] IsBigInt(v) -> FALSE
      [] OTHER -> TRUE

\* the codec tiers: chosen by the estimate, or named
Tiers == {PyNone, "json", "msgpack", "protobuf"}

\* deserialize was called on the blob serialize returned last
DecodedLastBlob ==
    /\ codec_last.op = "deserialize"
    /\ encoded.op = "serialize"
    /\ codec_last.blob = encoded.blob

\* C26: deserialize(serialize(v)) = v for every representable v and every
\* tier
C26_RoundTrip ==
    (/\ DecodedLastBlob
     /\ Representable(encoded.data)
     /\ encoded.format_override \in Tiers) =>
        /\ codec_last.out.ok
        /\ codec_last.out.val = encoded.data

\* serialize was called with format_override=None and returned a blob
AutoEncoded == 
    /\ codec_last.op = "serialize"
    /\ codec_last.format_override = PyNone
    /\ codec_last.out.ok

\* the tag the estimate asks for
TagOfEstimate(n) == IF n < 1000 THEN 1 ELSE IF n < 100000 THEN 2 ELSE 3

\* C27 as stated: with no override the tag of the blob is 1 when the
\* estimate is below 1000, 2 from 1000 up to 99999, 3 from 100000
C27_TagFollowsEstimate ==
    AutoEncoded =>
        codec_last.out.val.tag = TagOfEstimate(estimate_payload_size(codec_last.data))

\* C27, amended: the tag follows the estimate whenever the selected encoder
\* returns; when it raises (msgpack on nesting beyond its limit) the blob is
\* the JSON fallback with tag 1.  Lists of 500, 50000 and 500000 elements get
\* the tags 1, 2 and 3
C27_TagFollowsEstimateUnlessFallback ==
    /\ AutoEncoded =>
        codec_last.out.val.tag =
            IF PackOutcome(codec_last.data) = "ValueError" THEN 1
            ELSE TagOfEstimate(estimate_payload_size(codec_last.data))
    /\ \A n \in {500, 50000, 500000} :
        (AutoEncoded /\ codec_last.data = PyListOf(JNum(1), n)) =>
            codec_last.out.val.tag = (CASE n = 500 -> 1 [] n = 50000 -> 2 [] n = 500000 -> 3)

\* a list of 50000 elements was serialized with no override
C27_Witness ==
    /\ AutoEncoded
    /\ codec_last.data = PyListOf(JNum(1), 50000)
    /\ codec_last.out.val.tag = 2

\* what serialize returns for the data of the last call under an override
EncodedAs(format_override) ==
    serialize(codec_last.data, format_override, ZeroStats).out

\* C28: protobuf is msgpack under another tag.  Whenever serialize returns a
\* blob under the override "protobuf" it returns one under "msgpack" with
\* the same body, and the other way round; the tags are 3 and 2 whenever the
\* encoder returned; and deserialize gives the same outcome for a body under
\* tag 2 and under tag 3
C28_ProtobufIsMsgpackAlias ==
    /\ (codec_last.op = "serialize" /\ codec_last.format_override = "protobuf") =>
          /\ codec_last.out.ok = EncodedAs("msgpack").ok
          /\ codec_last.out.ok =>
                /\ codec_last.out.val.body = EncodedAs("msgpack").val.body
                /\ PackOutcome(codec_last.data) # "ValueError" =>
                      /\ codec_last.out.val.tag = 3
                      /\ EncodedAs("msgpack").val.tag = 2
    /\ (codec_last.op = "deserialize" /\ "tag" \in DOMAIN codec_last.blob
        /\ codec_last.blob.tag \in {2, 3}) =>
          /\ codec_last.out = deserialize(Blob(2, codec_last.blob.body))
          /\ codec_last.out = deserialize(Blob(3, codec_last.blob.body))
\* C28 as stated: for every value, the blobs under the overrides "protobuf"
\* and "msgpack" have the same body and the tags 3 and 2
C28_AliasDiffersOnlyInTag ==
    (codec_last.op = "serialize" /\ codec_last.format_override = "protobuf"
     /\ codec_last.out.ok) =>
        /\ EncodedAs("msgpack").ok
        /\ codec_last.out.val.body = EncodedAs("msgpack").val.body
        /\ codec_last.out.val.tag = 3
        /\ EncodedAs("msgpack").val.tag = 2

\* a list of 1000 elements was serialized under the override "protobuf"
C28_Witness ==
    /\ codec_last.op = "serialize"
    /\ codec_last.format_override = "protobuf"
    /\ codec_last.data = PyListOf(JNum(1), 1000)
    /\ codec_last.out = Ok(Blob(3, [msgpack |-> PyListOf(JNum(1), 1000)]))

\* C29: the counter of each format is the number of serialize calls since
\* the last reset_stats that returned a blob with the tag of that format, and
\* right after reset_stats the three counters are zero
C29_CountersMatchTaggedBlobs ==
    /\ \A f \in FormatNames : format_stats[f] = tagged[f]
    /\ codec_last.op = "reset_stats" => format_stats = ZeroStats

\* a worker has dequeued the item of request rid and holds it
HeldByWorker(rid) == \E w \in Workers : held[w] # <<>> /\ held[w][1].rid = rid

\* the response of a worker for request rid has been put on the response
\* queue: it is still there or the drain has taken it
ResponsePut(rid) ==
    \/ \E i \in 1..Len(response_queue) : response_queue[i].rid = rid
    \/ \E i \in 1..Len(sent) : sent[i].rid = rid /\ FromWorker(i)

\* C31: a work item a worker has dequeued is always followed by its response
\* on the response queue, whatever stop() or a shutdown signal does meanwhile
C31_DequeuedItemGetsResponse ==
    \A rid \in 1..MaxRequests : HeldByWorker(rid) ~> ResponsePut(rid)

\* the requests whose work item was put on the request queue at some time:
\* the item is still queued, or held by a worker, or its response is on the
\* response queue or was sent (sends do not fail here, so none is dropped)
EverEnqueued ==
    {rid \in 1..Len(received) :
        \/ InRequestQueue(rid) # {}
        \/ InWorkers(rid) # {}
        \/ InResponseQueue(rid) # {}
        \/ \E i \in RepliesTo(rid) : FromWorker(i)}

\* C32: requests_total is the number of work items ever put on the request
\* queue; it changes only in a call of _handle_frontend that enqueues an
\* item, and then by one; a heartbeat, a malformed envelope, invalid JSON or
\* a rejected request leaves it as it was
C32_TotalCountsAcceptedRequests ==
    /\ [](metrics.requests_total = Cardinality(EverEnqueued))
    /\ [][ metrics'.requests_total # metrics.requests_total =>
             /\ Took
             /\ Submitted(Taken)
             /\ Len(request_queue') = Len(request_queue) + 1
             /\ metrics'.requests_total = metrics.requests_total + 1 ]_vars
    /\ [][ (Took /\ Len(request_queue') = Len(request_queue)) =>
             metrics'.requests_total = metrics.requests_total ]_vars

\* one request was accepted and counted, another was rejected and a
\* heartbeat or an unparsable message may have come: the total is the
\* accepted ones only
C32_Witness ==
    /\ metrics.requests_total >= 1
    /\ metrics.requests_rejected >= 1
    /\ Len(received) > metrics.requests_total

\* this step is a pass of the drain that sent the entry it took
DrainSent ==
    /\ broker_pc = "drain"
    /\ response_queue # <<>>
    /\ response_queue' = Tail(response_queue)
    /\ Len(sent') = Len(sent) + 1

\* C33: a drain ends only on an empty response queue; each entry it sends
\* adds one to requests_success when the status of the response is success
\* and one to requests_error otherwise, and leaves the other counter; no
\* other step changes either counter
C33_DrainCountsEachSentEntry ==
    /\ [][ (broker_pc = "drain" /\ broker_pc' # "drain") => response_queue = <<>> ]_vars
    /\ [][ DrainSent =>
             LET status == Head(response_queue).response.status IN
             /\ metrics'.requests_success =
                    metrics.requests_success + (IF status = "success" THEN 1 ELSE 0)
             /\ metrics'.requests_error =
                    metrics.requests_error + (IF status = "success" THEN 0 ELSE 1) ]_vars
    /\ [][ (\/ metrics'.requests_success # metrics.requests_success
            \/ metrics'.requests_error # metrics.requests_error) => DrainSent ]_vars

\* a drain has ended on the empty queue after a success response and an
\* error response were sent and counted
C33_Witness ==
    /\ metrics.requests_success = 1
    /\ metrics.requests_error = 1
    /\ response_queue = <<>>
    /\ broker_pc = "metrics"

\* the requests whose item a worker has dequeued
Dequeued == {rid \in EverEnqueued : InRequestQueue(rid) = {}}

\* the replies sent that carry a worker's response, in the order of sending
WorkerReplies == SelectSeq(sent, LAMBDA m : "processing_time" \in DOMAIN m.frames[3].json)

\* C34: the request queue is FIFO: the items wait in the order in which they
\* were accepted, and every item already dequeued was accepted before every
\* item still waiting; with a single worker thread the worker responses are
\* sent in the order in which their requests were accepted
C34_FifoOrder ==
    /\ \A i, j \in 1..Len(request_queue) :
          i < j => request_queue[i].rid < request_queue[j].rid
    /\ \A i \in 1..Len(request_queue) : \A rid \in Dequeued :
          rid < request_queue[i].rid
    /\ \A i, j \in 1..Len(WorkerReplies) :
          i < j => WorkerReplies[i].rid < WorkerReplies[j].rid

\* two requests were waiting in the queue together (the queue size recorded
\* by _update_metrics) and both worker responses have been sent
C34_Witness ==
    /\ metrics.queue_size = 2
    /\ Len(WorkerReplies) = 2
    /\ Cardinality(launched(config)) = 1

InMainLoop == broker_pc \in {"poll", "drain", "metrics"}

\* C35: once running is false the dispatch loop does not begin another
\* iteration: it reaches the poll only from an iteration that found running
\* true, it finishes the iteration in progress (at most one more client
\* message), leaves the loop at the next test, and cleanup stops the pool;
\* under fair scheduling this always happens, with or without client traffic
C35_LoopExitsAfterShutdownSignal ==
    /\ [][ (broker_pc \in {"drain", "metrics"} /\ broker_pc' = "poll") => running ]_vars
    /\ [][ (~running /\ broker_pc = "poll") =>
             /\ Len(received') <= Len(received) + 1
             /\ broker_pc' \in {"poll", "drain"} ]_vars
    /\ [][ (~running /\ broker_pc = "drain") =>
             /\ received' = received
             /\ broker_pc' \in {"drain", "metrics"} ]_vars
    /\ [][ (~running /\ broker_pc = "metrics") =>
             /\ received' = received
             /\ broker_pc' \in {"metrics", "cleanup"} ]_vars
    /\ [][ (broker_pc = "cleanup" /\ broker_pc' # "cleanup") =>
             /\ broker_pc' = "done"
             /\ ~pool_running'
             /\ ~running' ]_vars
    /\ (~running /\ InMainLoop) ~> (broker_pc \in {"done", "exited"} /\ ~pool_running)

\* the signal came during an iteration that took a client message, the
\* iteration was completed and cleanup has run with an item still queued
C35_Witness ==
    /\ broker_pc = "done"
    /\ ~pool_running
    /\ Len(received) = MaxRequests
    /\ request_queue # <<>>

\* the worker threads that have been started and have not ended
RunningThreads == {w \in Workers : worker_pc[w] \in {"get", "proc"}}

\* C36: a started pool runs exactly config.worker_threads worker threads, so
\* at most worker_threads items are executed at once
C36_ThreadsLaunchedAreWorkerThreads ==
    /\ (pool_running /\ broker_pc \in {"poll", "drain", "metrics"}) =>
          Cardinality(RunningThreads) = config.worker_threads
    /\ Cardinality(Holding) <= config.worker_threads

\* the sum of the lengths of all lists and tuples contained in a value, at
\* any depth
RECURSIVE ArrayElements(_)
RECURSIVE SumOver(_, _)
SumOver(f, keys) ==
    IF keys = {} THEN 0
    ELSE LET k == CHOOSE x \in keys : TRUE IN ArrayElements(f[k]) + SumOver(f, keys \ {k})

ArrayElements(v) ==
    CASE IsArr(v) -> Len(v.arr) + SumOver(v.arr, DOMAIN v.arr)
      [] IsTuple(v) -> Len(v.tuple) + SumOver(v.tuple, DOMAIN v.tuple)
      [] IsListOf(v) -> v.times + v.times * ArrayElements(v.item)
      [] IsDeepList(v) -> v.depth - 1
      [] IsObj(v) -> SumOver(v.obj, DOMAIN v.obj)
      [] OTHER -> 0

\* C37: the element count estimated for the value handed to serialize is the
\* sum of the lengths of all arrays in it at any depth, and 0 when it holds
\* no array
C37_EstimateCountsAllArrays ==
    codec_last.op = "serialize" =>
        estimate_payload_size(codec_last.data) = ArrayElements(codec_last.data)

\* no accepted request is on its way: nothing queued, nothing held by a
\* worker, nothing on the response queue
Quiescent ==
    /\ request_queue = <<>>
    /\ Holding = {}
    /\ response_queue = <<>>

\* C38: requests_success + requests_error never exceeds requests_total, and
\* equals it whenever the system is quiescent (sends do not fail here)
C38_AnsweredNeverExceedsTotal ==
    /\ metrics.requests_success + metrics.requests_error <= metrics.requests_total
    /\ Quiescent =>
          metrics.requests_success + metrics.requests_error = metrics.requests_total

\* every request of the run was accepted and answered, one with success and
\* one with an error
C38_Witness ==
    /\ Quiescent
    /\ metrics.requests_total = MaxRequests
    /\ metrics.requests_success >= 1
    /\ metrics.requests_error >= 1

\* accepted work items whose response the broker has not yet taken
Outstanding == Len(request_queue) + Cardinality(Holding) + Len(response_queue)

\* C39: the accepted work items not yet answered (waiting, held by a worker
\* or on the response queue) number at most max_queue_size + the number of
\* worker threads + 1
C39_OutstandingWorkBounded ==
    Outstanding <= config.max_queue_size + Cardinality(launched(config)) + 1

\* the bound is reached: the queue is full, the worker holds an item and a
\* response waits for the drain
C39_Witness ==
    /\ Outstanding = config.max_queue_size + Cardinality(launched(config)) + 1
    /\ response_queue # <<>>
    /\ Len(received) < BurstRequests

\* this step is a call of serialize on a value JSON can write, with the
\* given override
SerializesWith(overrides) ==
    /\ codec_last'.op = "serialize"
    /\ codec_calls' = codec_calls + 1
    /\ codec_last'.format_override \in overrides
    /\ JsonSerializable(codec_last'.data)

\* the call returned the JSON blob of its argument and counted nothing
JsonBlobUncounted ==
    /\ codec_last'.out.ok
    /\ codec_last'.out.val = Blob(1, [json_text |-> JsonText(codec_last'.data)])
    /\ format_stats' = format_stats

\* C40 as stated: serialize with an override that is none of "json",
\* "msgpack", "protobuf" returns the JSON blob with tag 1 and increments no
\* counter
C40_UnknownOverrideFallsBackUncounted ==
    [][ SerializesWith(Overrides \ (FormatNames \cup {PyNone})) => JsonBlobUncounted ]_vars

\* C40, amended: so it is for every override that is a non-empty string; the
\* empty string counts as no override
C40_NonEmptyUnknownOverrideFallsBackUncounted ==
    /\ [][ SerializesWith(Overrides \ (FormatNames \cup {PyNone, ""})) =>
             JsonBlobUncounted ]_vars
    /\ [][ SerializesWith({""}) =>
             codec_last'.out = serialize(codec_last'.data, PyNone, format_stats).out ]_vars

\* a list that the estimate would give to msgpack was serialized under the
\* override "yaml": tag 1, JSON body, counters at zero
C40_Witness ==
    /\ codec_last.op = "serialize"
    /\ codec_last.format_override = "yaml"
    /\ codec_last.data = PyListOf(JNum(1), 1000)
    /\ codec_last.out.ok
    /\ codec_last.out.val.tag = 1
    /\ format_stats = ZeroStats

====
